---- MODULE Spec2Model ----
(***************************************************************************)
(* Model of the dashboard-data API route of hubspot-dashboard-nextjs       *)
(* (src/src/app/api/dashboard-data/route.ts): the paginated ticket fetch,  *)
(* the status classification, the five statistics and the four chart       *)
(* payloads, and the GET handler that chains them; and of the Dashboard    *)
(* page (src/src/app/page.tsx): the state of the component, loadDashboard  *)
(* and the closed percentages the page shows.                              *)
(*                                                                         *)
(* Representation of JavaScript values:                                    *)
(*   - an optional string property is a TLA+ string, Undefined standing    *)
(*     for a missing property; "" is the (falsy) empty string;             *)
(*   - a status is a record [type, parts]: type is the JavaScript type of  *)
(*     the value, parts the pieces of the string (a template literal       *)
(*     `STAGE_${c}` is <<"STAGE_", c>>);                                   *)
(*   - a Date is a record [valid, time]; an Invalid Date has valid = FALSE *)
(*     and its getTime() is NaN;                                           *)
(*   - time is counted in quarter days (6 h) since a Sunday 00:00, so that *)
(*     365.25 days are the whole number QuarterDaysPerYear.                *)
(***************************************************************************)
EXTENDS Integers, Sequences, FiniteSets, TLC

VARIABLES
    apiKey,      \* process.env.HUBSPOT_API_KEY
    now,         \* the clock read by `new Date()`
    pc,          \* position of the request in GET / fetchHubSpotTickets
    after,       \* fetchHubSpotTickets: the cursor variable
    allTickets,  \* fetchHubSpotTickets: the accumulated tickets
    requests,    \* the `after` parameter of every request sent, in order
    inflight,    \* the answer of the CRM API to the request awaited (NoAnswer: none yet)
    pages,       \* every answer received, in order
    stats,       \* result of generateDashboardStats (NotComputed before)
    charts,      \* result of generateCharts (NotComputed before)
    response,    \* body of the NextResponse GET returns (NoResponse before)
    isLoading,   \* Dashboard: useState(true)
    error,       \* Dashboard: useState(null), the message shown by the error view
    data,        \* Dashboard: useState(null), the payload the page renders
    loads        \* the calls of loadDashboard, in the order they start

serverVars ==
    <<apiKey, now, pc, after, allTickets, requests, inflight, pages, stats, charts, response>>

clientVars == <<isLoading, error, data, loads>>

vars == <<serverVars, clientVars>>

----------------------------------------------------------------------------
(* Bounds of the model *)

MaxPages == 2
MaxPageSize == 1
MaxTickets == 3
MaxLoads == 2

----------------------------------------------------------------------------
(* JavaScript values *)

Undefined == "<undefined>"

\* truthiness of an optional string: undefined and "" are falsy
Truthy(s) == s # Undefined /\ s # ""

Str(s) == [type |-> "string", parts |-> <<s>>]

\* null as the value of the error state (a message is a tuple of string parts)
Null == <<"<null>">>

\* null as the value of the data state
NoData == [state |-> "null"]

RECURSIVE SumSeq(_)
SumSeq(s) == IF s = <<>> THEN 0 ELSE s[1] + SumSeq(Tail(s))

SeqUpTo(S, n) == UNION {[1..k -> S] : k \in 0..n}

RECURSIVE Flatten(_)
Flatten(ss) == IF ss = <<>> THEN <<>> ELSE ss[1] \o Flatten(Tail(ss))

----------------------------------------------------------------------------
(* Status classification *)

stageMapping ==
    [c \in {"1", "2", "3", "4", "257285392", "257285393", "1686843097",
            "1687677633", "999098012", "1746656967"} |->
        CASE c = "1" -> "NEW"
          [] c = "2" -> "BACKLOG"
          [] c = "3" -> "RESOURCE_SUPPORT"
          [] c = "4" -> "CLOSED"
          [] c = "257285392" -> "WAITING_FOR_RESPONSE"
          [] c = "257285393" -> "COMPLETED"
          [] c = "1686843097" -> "IN_PROCESS_STAFFMARK"
          [] c = "1687677633" -> "EMPLOYMENT_SUPPORT"
          [] c = "999098012" -> "IN_PROCESS_OSW"
          [] c = "1746656967" -> "ARCHIVED"]

\* stageMapping is an object literal: a property read that misses its own keys
\* falls through to Object.prototype, whose members are functions (and, for
\* __proto__, an object), all truthy.
ObjectPrototypeMembers ==
    [k \in {"constructor", "toString", "valueOf", "hasOwnProperty", "__proto__"} |->
        IF k = "__proto__" THEN "object" ELSE "function"]

\* stageMapping[stageId]: the value read (type "undefined" when there is none)
StageLookup(stageId) ==
    IF stageId \in DOMAIN stageMapping THEN Str(stageMapping[stageId])
    ELSE IF stageId \in DOMAIN ObjectPrototypeMembers
         THEN [type |-> ObjectPrototypeMembers[stageId], parts |-> <<stageId>>]
         ELSE [type |-> "undefined", parts |-> <<>>]

getStatusFromStage(stageId) ==
    IF ~Truthy(stageId) THEN Str("UNKNOWN")
    ELSE LET v == StageLookup(stageId)
         IN  IF v.type # "undefined" THEN v
             ELSE [type |-> "string", parts |-> <<"STAGE_", stageId>>]

----------------------------------------------------------------------------
(* Dates and numbers *)

\* 365.25 * 24 * 60 * 60 * 1000 ms, in quarter days
QuarterDaysPerYear == 1461

\* 24 * 60 * 60 * 1000 ms, in quarter days
QuarterDaysPerDay == 4

\* a Wednesday, 12:00
Now0 == QuarterDaysPerYear * 140 + 3 * QuarterDaysPerDay + 2

NowValues == {Now0, Now0 + 1}

\* clock readings over one week: the Saturday 18:00 before the Sunday 00:00 that
\* starts the week of Now0, that Sunday 00:00, Now0 and the Saturday 18:00 after
WeekNowValues ==
    {Now0 - 3 * QuarterDaysPerDay - 3, Now0 - 3 * QuarterDaysPerDay - 2, Now0,
     Now0 + 3 * QuarterDaysPerDay + 1}

\* The date strings of the model and the instant each one denotes.  A
\* birthday "bd-a/b" makes the age a at Now0 and b one quarter day later;
\* "sun-00" is the Sunday 00:00 that starts the week of Now0.
DateTable ==
    [s \in {"d1", "d2", "d2b", "d3", "prev-sun-00", "sat-18", "sun-00", "sun-06",
            "bd-future/0", "bd-17/18", "bd-24/25", "bd-34/35", "bd-44/45",
            "bd-54/55", "bd-64/65", "bd-120/121"} |->
        CASE s = "d1" -> Now0 - 30 * QuarterDaysPerDay
          [] s = "d2" -> Now0 - 20 * QuarterDaysPerDay
          [] s = "d2b" -> Now0 - 20 * QuarterDaysPerDay + 1
          [] s = "d3" -> Now0 - 1 * QuarterDaysPerDay
          [] s = "prev-sun-00" -> Now0 - 10 * QuarterDaysPerDay - 2
          [] s = "sat-18" -> Now0 - 3 * QuarterDaysPerDay - 3
          [] s = "sun-00" -> Now0 - 3 * QuarterDaysPerDay - 2
          [] s = "sun-06" -> Now0 - 3 * QuarterDaysPerDay - 1
          [] s = "bd-future/0" -> Now0 + 1
          [] s = "bd-17/18" -> Now0 + 1 - 18 * QuarterDaysPerYear
          [] s = "bd-24/25" -> Now0 + 1 - 25 * QuarterDaysPerYear
          [] s = "bd-34/35" -> Now0 + 1 - 35 * QuarterDaysPerYear
          [] s = "bd-44/45" -> Now0 + 1 - 45 * QuarterDaysPerYear
          [] s = "bd-54/55" -> Now0 + 1 - 55 * QuarterDaysPerYear
          [] s = "bd-64/65" -> Now0 + 1 - 65 * QuarterDaysPerYear
          [] s = "bd-120/121" -> Now0 + 1 - 121 * QuarterDaysPerYear]

\* new Date(s): any other string gives an Invalid Date
NewDate(s) ==
    IF s \in DOMAIN DateTable THEN [valid |-> TRUE, time |-> DateTable[s]]
    ELSE [valid |-> FALSE, time |-> 0]

\* the leading decimal number each numeric text of the model starts with
NumberTable ==
    [s \in {"0", "25", "100", "-50", "12abc"} |->
        CASE s = "0" -> 0
          [] s = "25" -> 25
          [] s = "100" -> 100
          [] s = "-50" -> 0 - 50
          [] s = "12abc" -> 12]

\* parseFloat(s): NaN when s does not start with a number
parseFloat(s) ==
    IF s \in DOMAIN NumberTable THEN [nan |-> FALSE, value |-> NumberTable[s]]
    ELSE [nan |-> TRUE, value |-> 0]

\* date.toISOString().split('T')[0]: the calendar day
IsoDay(date) == date.time \div QuarterDaysPerDay

----------------------------------------------------------------------------
(* Tickets *)

\* a ticket as the CRM API returns it
RawTicket(id, stage, created, service, crisis, birthday) ==
    [id |-> id,
     properties |-> [hs_pipeline_stage |-> stage, createdate |-> created,
                     service_provided |-> service, crisis_wish |-> crisis,
                     birthday |-> birthday]]

\* fetchHubSpotTickets: the transformation of one API ticket
TransformTicket(ticket) ==
    [id |-> ticket.id,
     status |-> getStatusFromStage(ticket.properties.hs_pipeline_stage),
     created_at |-> ticket.properties.createdate,
     properties |-> ticket.properties]

TransformTickets(results) == [i \in 1..Len(results) |-> TransformTicket(results[i])]

----------------------------------------------------------------------------
(* generateDashboardStats *)

openStatusesWithoutOsw ==
    {Str("NEW"), Str("BACKLOG"), Str("RESOURCE_SUPPORT"), Str("EMPLOYMENT_SUPPORT"),
     Str("IN_PROCESS_STAFFMARK"), Str("WAITING_FOR_RESPONSE")}

openStatuses ==
    {Str("NEW"), Str("BACKLOG"), Str("RESOURCE_SUPPORT"), Str("EMPLOYMENT_SUPPORT"),
     Str("IN_PROCESS_STAFFMARK"), Str("IN_PROCESS_OSW"), Str("WAITING_FOR_RESPONSE")}

closedStatusesWithNew == {Str("CLOSED"), Str("COMPLETED"), Str("ARCHIVED"), Str("NEW")}

closedStatuses == {Str("CLOSED"), Str("COMPLETED"), Str("ARCHIVED")}

StartOfWeekNoMidnight(today) ==
    LET day == today \div QuarterDaysPerDay
        getDay == day % 7
    IN  today - getDay * QuarterDaysPerDay

\* setDate(getDate() - getDay()); setHours(0, 0, 0, 0): the last Sunday, 00:00
StartOfWeek(today) ==
    LET day == today \div QuarterDaysPerDay
        getDay == day % 7
    IN  (day - getDay) * QuarterDaysPerDay

CreatedThisWeek(ticket, today) ==
    /\ Truthy(ticket.created_at)
    /\ LET createdDate == NewDate(ticket.created_at)
       IN  createdDate.valid /\ createdDate.time >= StartOfWeek(today)

generateDashboardStats(tickets, today) ==
    IF Len(tickets) = 0
    THEN [open_tickets |-> 0, new_tickets_this_week |-> 0, osw_count |-> 0,
          staffmark_count |-> 0, closed_tickets |-> 0]
    ELSE [open_tickets |-> Len(SelectSeq(tickets, LAMBDA t : t.status \in openStatuses)),
          new_tickets_this_week |-> Len(SelectSeq(tickets, LAMBDA t : CreatedThisWeek(t, today))),
          osw_count |-> Len(SelectSeq(tickets, LAMBDA t : t.status = Str("IN_PROCESS_OSW"))),
          staffmark_count |->
              Len(SelectSeq(tickets, LAMBDA t : t.status = Str("IN_PROCESS_STAFFMARK"))),
          closed_tickets |-> Len(SelectSeq(tickets, LAMBDA t : t.status \in closedStatuses))]


----------------------------------------------------------------------------
(* generateCharts *)

Returned(v) == [state |-> "returned", value |-> v]
Thrown(msg) == [state |-> "thrown", message |-> msg]
NotComputed == [state |-> "not computed"]

\* Resource-support chart
resourceChart(tickets) ==
    [x |-> <<"Resource", "Waiting">>,
     y |-> <<Len(SelectSeq(tickets, LAMBDA t : t.status = Str("RESOURCE_SUPPORT"))),
             Len(SelectSeq(tickets, LAMBDA t : t.status = Str("WAITING_FOR_RESPONSE")))>>]

\* Service chart.  The object serviceCounts is the sequence of its own
\* [key, count] properties in the order of their creation.
HasKey(obj, k) == \E i \in 1..Len(obj) : obj[i].key = k

Increment(obj, k) ==
    IF HasKey(obj, k)
    THEN [i \in 1..Len(obj) |->
             IF obj[i].key = k THEN [key |-> k, count |-> obj[i].count + 1] ELSE obj[i]]
    ELSE Append(obj, [key |-> k, count |-> 1])

ServiceCountedUnlessEmpty(service) == Truthy(service)

ServiceCounted(service) == Truthy(service) /\ service # "null" /\ service # ""

RECURSIVE ServiceCountsFrom(_, _)
ServiceCountsFrom(tickets, obj) ==
    IF tickets = <<>> THEN obj
    ELSE LET service == tickets[1].properties.service_provided
         IN  ServiceCountsFrom(Tail(tickets),
                 IF ServiceCounted(service) THEN Increment(obj, service) ELSE obj)

serviceCounts(tickets) == ServiceCountsFrom(tickets, <<>>)

\* the keys of the model that are canonical array indices, and their values
ArrayIndexTable == [s \in {"2", "10"} |-> IF s = "2" THEN 2 ELSE 10]

IsArrayIndex(k) == k \in DOMAIN ArrayIndexTable

RECURSIVE InsertByIndex(_, _)
InsertByIndex(sorted, p) ==
    IF sorted = <<>> THEN <<p>>
    ELSE IF ArrayIndexTable[sorted[1].key] <= ArrayIndexTable[p.key]
         THEN <<sorted[1]>> \o InsertByIndex(Tail(sorted), p)
         ELSE <<p>> \o sorted

RECURSIVE SortByIndex(_)
SortByIndex(ps) ==
    IF ps = <<>> THEN <<>>
    ELSE InsertByIndex(SortByIndex(SubSeq(ps, 1, Len(ps) - 1)), ps[Len(ps)])

\* the order in which Object.keys and Object.values enumerate an object: the
\* array-index keys in ascending numeric order, then the other string keys in
\* the order of their creation
OwnProperties(obj) ==
    SortByIndex(SelectSeq(obj, LAMBDA p : IsArrayIndex(p.key)))
        \o SelectSeq(obj, LAMBDA p : ~IsArrayIndex(p.key))

ObjectKeys(obj) == LET ps == OwnProperties(obj) IN [i \in 1..Len(ps) |-> ps[i].key]

ObjectValues(obj) == LET ps == OwnProperties(obj) IN [i \in 1..Len(ps) |-> ps[i].count]

serviceChart(tickets) ==
    [labels |-> ObjectKeys(serviceCounts(tickets)),
     values |-> ObjectValues(serviceCounts(tickets))]

\* Crisis-wish chart
CrisisIncluded(ticket) ==
    /\ Truthy(ticket.properties.crisis_wish)
    /\ Truthy(ticket.created_at)
    /\ ~parseFloat(ticket.properties.crisis_wish).nan

CrisisItem(ticket) ==
    [date |-> NewDate(ticket.created_at),
     amount |-> parseFloat(ticket.properties.crisis_wish).value]

crisisData(tickets) ==
    LET kept == SelectSeq(tickets, CrisisIncluded)
    IN  [i \in 1..Len(kept) |-> CrisisItem(kept[i])]

\* Array.prototype.sort is stable: an item goes behind every item that does
\* not compare greater.  (With an Invalid Date the comparator is NaN and the
\* order is the engine's; such a list never leaves generateCharts, see
\* CrisisThrows.)
RECURSIVE InsertByDateDescending(_, _)
InsertByDateDescending(sorted, item) ==
    IF sorted = <<>> THEN <<item>>
    ELSE IF item.date.time - sorted[1].date.time <= 0
         THEN <<sorted[1]>> \o InsertByDateDescending(Tail(sorted), item)
         ELSE <<item>> \o sorted

RECURSIVE InsertByDate(_, _)
InsertByDate(sorted, item) ==
    IF sorted = <<>> THEN <<item>>
    ELSE IF sorted[1].date.time - item.date.time <= 0
         THEN <<sorted[1]>> \o InsertByDate(Tail(sorted), item)
         ELSE <<item>> \o sorted

RECURSIVE SortByDate(_)
SortByDate(items) ==
    IF items = <<>> THEN <<>>
    ELSE InsertByDate(SortByDate(SubSeq(items, 1, Len(items) - 1)), items[Len(items)])

sortedCrisisData(tickets) == SortByDate(crisisData(tickets))

runningCounts(sorted) == [index \in 1..Len(sorted) |-> index]

RECURSIVE RunningTotalsNoCarry(_, _)
RunningTotalsNoCarry(items, runningTotal) ==
    IF items = <<>> THEN <<>>
    ELSE <<runningTotal + items[1].amount>> \o RunningTotalsNoCarry(Tail(items), runningTotal)

RECURSIVE RunningTotalsFrom(_, _)
RunningTotalsFrom(items, runningTotal) ==
    IF items = <<>> THEN <<>>
    ELSE <<runningTotal + items[1].amount>>
             \o RunningTotalsFrom(Tail(items), runningTotal + items[1].amount)

runningTotals(sorted) == RunningTotalsFrom(sorted, 0)

dates(sorted) == [i \in 1..Len(sorted) |-> IsoDay(sorted[i].date)]

\* toISOString() of an Invalid Date throws a RangeError
CrisisThrows(tickets) ==
    \E i \in 1..Len(crisisData(tickets)) : ~crisisData(tickets)[i].date.valid

crisisChart(tickets) ==
    LET sorted == sortedCrisisData(tickets)
    IN  [x |-> dates(sorted), counts |-> runningCounts(sorted),
         totals |-> runningTotals(sorted)]

\* Age chart
ComputedAge(birthday, currentDate) ==
    (currentDate - NewDate(birthday).time) \div QuarterDaysPerYear

AgeIncluded(ticket, currentDate) ==
    /\ Truthy(ticket.properties.birthday)
    /\ NewDate(ticket.properties.birthday).valid
    /\ ComputedAge(ticket.properties.birthday, currentDate) >= 0
    /\ ComputedAge(ticket.properties.birthday, currentDate) <= 120

ages(tickets, currentDate) ==
    LET kept == SelectSeq(tickets, LAMBDA t : AgeIncluded(t, currentDate))
    IN  [i \in 1..Len(kept) |-> ComputedAge(kept[i].properties.birthday, currentDate)]

ageGroupLabels == <<"0-17", "18-24", "25-34", "35-44", "45-54", "55-64", "65+">>

AgeGroupIndexOffByOne(age) ==
    IF age <= 18 THEN 1
    ELSE IF age <= 25 THEN 2
    ELSE IF age <= 35 THEN 3
    ELSE IF age <= 45 THEN 4
    ELSE IF age <= 55 THEN 5
    ELSE IF age <= 65 THEN 6
    ELSE 7

\* the index in ageGroupsOrdered of the group an age is added to
AgeGroupIndex(age) ==
    IF age < 18 THEN 1
    ELSE IF age < 25 THEN 2
    ELSE IF age < 35 THEN 3
    ELSE IF age < 45 THEN 4
    ELSE IF age < 55 THEN 5
    ELSE IF age < 65 THEN 6
    ELSE 7

ageGroupsOrdered(as) ==
    [g \in 1..Len(ageGroupLabels) |->
        [label |-> ageGroupLabels[g],
         count |-> Len(SelectSeq(as, LAMBDA age : AgeGroupIndex(age) = g))]]

filteredGroupsAll(as) == ageGroupsOrdered(as)

filteredGroups(as) == SelectSeq(ageGroupsOrdered(as), LAMBDA g : g.count > 0)

ageChart(tickets, currentDate) ==
    LET as == ages(tickets, currentDate)
        groups == filteredGroups(as)
    IN  IF Len(groups) > 0
        THEN [data |-> <<[x |-> [i \in 1..Len(groups) |-> groups[i].count],
                          y |-> [i \in 1..Len(groups) |-> groups[i].label]]>>,
              title |-> "Age Demographics Distribution",
              people |-> Len(as)]
        ELSE [data |-> <<>>,
              title |-> "Age Demographics - No Data Available",
              people |-> 0]

generateCharts(tickets, currentDate) ==
    IF CrisisThrows(tickets) THEN Thrown(<<"Invalid time value">>)
    ELSE Returned([resource_support |-> resourceChart(tickets),
                   service_provided |-> serviceChart(tickets),
                   crisis_wish_tracking |-> crisisChart(tickets),
                   age_demographics |-> ageChart(tickets, currentDate)])


----------------------------------------------------------------------------
(* The CRM API: what a page may hold *)

StageCodes ==
    DOMAIN stageMapping \cup {Undefined, "", "42", "constructor"}

\* tickets that differ in their pipeline stage only
StatusTickets ==
    {RawTicket("1", c, Undefined, Undefined, Undefined, Undefined) : c \in StageCodes}

\* tickets that differ in service_provided only
ServiceTickets ==
    {RawTicket("2", "1", "d1", s, Undefined, Undefined) :
        s \in {Undefined, "", "null", "Food", "Rent", "2", "10"}}

\* tickets that differ in crisis_wish and createdate
CrisisTickets ==
    {RawTicket("3", "1", cw[2], Undefined, cw[1], Undefined) :
        cw \in {<<"100", "d1">>, <<"25", "d2">>, <<"100", "d2b">>, <<"0", "d3">>,
                <<"12abc", "d3">>, <<"-50", "d2">>, <<"abc", "d1">>,
                <<Undefined, "d1">>, <<"", "d2">>, <<"100", Undefined>>,
                <<"25", "">>, <<"100", "not a date">>, <<"abc", "not a date">>}}

\* tickets that differ in birthday only
AgeTickets ==
    {RawTicket("4", "1", "d1", Undefined, Undefined, b) :
        b \in {Undefined, "", "not a date", "bd-future/0", "bd-17/18", "bd-24/25",
               "bd-34/35", "bd-44/45", "bd-54/55", "bd-64/65", "bd-120/121"}}

\* tickets that differ in createdate only
WeekTickets ==
    {RawTicket("5", "1", d, Undefined, Undefined, Undefined) :
        d \in {Undefined, "", "not a date", "prev-sun-00", "sat-18", "sun-00", "sun-06"}}

\* the tickets the paginated fetch is run on
ApiTickets ==
    {RawTicket("101", "1", "d1", "Food", "100", "bd-17/18"),
     RawTicket("102", "257285393", "not a date", "Rent", "25", "bd-64/65"),
     RawTicket("103", "999098012", "not a date", Undefined, "abc", "not a date"),
     RawTicket("104", "42", "d2", "null", "abc", "bd-120/121")}

Cursors == {"c1", "c2"}

NoAnswer == [kind |-> "none"]

OkPage(hasResults, results, next) ==
    [kind |-> "page", ok |-> TRUE, hasResults |-> hasResults, results |-> results,
     next |-> next]

\* an answer that is not ok
FailedPage(message) == [kind |-> "status", ok |-> FALSE, message |-> message]

\* no answer: fetch rejects
Rejection(message) == [kind |-> "rejected", ok |-> FALSE, message |-> message]

\* `${response.status} ${response.statusText}` of the non-ok answers
ErrorStatuses == {<<"401", " ", "Unauthorized">>, <<"500", " ", "Internal Server Error">>}

----------------------------------------------------------------------------
(* GET and fetchHubSpotTickets *)

NoResponse == [state |-> "none"]

\* GET's catch: error.message of the Error thrown
ErrorResponseGeneric(message) ==
    [success |-> FALSE, error |-> <<"Failed to fetch dashboard data">>]

ErrorResponse(message) == [success |-> FALSE, error |-> message]

SuccessResponse(s, c) == [success |-> TRUE, stats |-> s, charts |-> c]

\* Dashboard: the three useState initial values; loadDashboard not called yet
InitDashboard ==
    /\ isLoading = TRUE
    /\ error = Null
    /\ data = NoData
    /\ loads = <<>>

Init ==
    /\ InitDashboard
    /\ apiKey \in {Undefined, "", "key"}
    /\ now \in NowValues
    /\ pc = "start"
    /\ after = Undefined
    /\ allTickets = <<>>
    /\ requests = <<>>
    /\ inflight = NoAnswer
    /\ pages = <<>>
    /\ stats = NotComputed
    /\ charts = NotComputed
    /\ response = NoResponse

\* fetchHubSpotTickets: no API key
KeyMissing ==
    /\ pc = "start"
    /\ ~Truthy(apiKey)
    /\ pc' = "responded"
    /\ response' = ErrorResponse(<<"HUBSPOT_API_KEY environment variable is not set">>)
    /\ UNCHANGED <<apiKey, now, after, allTickets, requests, inflight, pages, stats, charts>>
    /\ UNCHANGED clientVars

BeginFetch ==
    /\ pc = "start"
    /\ Truthy(apiKey)
    /\ pc' = "request"
    /\ allTickets' = <<>>
    /\ after' = Undefined
    /\ UNCHANGED <<apiKey, now, requests, inflight, pages, stats, charts, response>>
    /\ UNCHANGED clientVars

\* the loop body up to `await fetch(...)`: the `after` parameter is sent when
\* the cursor is set
SendRequest ==
    /\ pc = "request"
    /\ requests' = Append(requests, IF Truthy(after) THEN after ELSE Undefined)
    /\ inflight' = NoAnswer
    /\ pc' = "await"
    /\ UNCHANGED <<apiKey, now, after, allTickets, pages, stats, charts, response>>
    /\ UNCHANGED clientVars

\* the answers the CRM API may give: a failure, or a page of at most
\* MaxPageSize tickets with or without a next cursor (the model lets the API
\* give at most MaxPages pages)
ApiAnswers ==
    {Rejection(<<"fetch failed">>)}
        \cup {FailedPage(<<"HubSpot API error: ">> \o st) : st \in ErrorStatuses}
        \cup {OkPage(TRUE, results, next) :
                 results \in SeqUpTo(ApiTickets, MaxPageSize),
                 next \in Cursors \cup {Undefined}}
        \cup {OkPage(FALSE, <<>>, next) : next \in Cursors \cup {Undefined}}

ApiAnswer ==
    /\ pc = "await"
    /\ inflight = NoAnswer
    /\ \E answer \in ApiAnswers :
         /\ (answer.ok /\ Truthy(answer.next)) => Len(pages) + 1 < MaxPages
         /\ inflight' = answer
    /\ UNCHANGED <<apiKey, now, pc, after, allTickets, requests, pages, stats, charts,
                   response>>
    /\ UNCHANGED clientVars

\* fetch rejects (a transport error): the error reaches GET's catch
FetchRejects ==
    /\ pc = "await"
    /\ inflight.kind = "rejected"
    /\ pages' = Append(pages, inflight)
    /\ pc' = "responded"
    /\ response' = ErrorResponse(inflight.message)
    /\ UNCHANGED <<apiKey, now, after, allTickets, requests, inflight, stats, charts>>
    /\ UNCHANGED clientVars

\* the answer is not ok: the Error thrown reaches GET's catch
ReceiveNotOk ==
    /\ pc = "await"
    /\ inflight.kind = "status"
    /\ pages' = Append(pages, inflight)
    /\ pc' = "responded"
    /\ response' = ErrorResponse(inflight.message)
    /\ UNCHANGED <<apiKey, now, after, allTickets, requests, inflight, stats, charts>>
    /\ UNCHANGED clientVars

\* data.results?.map(...) || []
TransformedTickets(page) ==
    IF page.hasResults THEN TransformTickets(page.results) ELSE <<>>

NextAfterKept(page) == Undefined

NextAfter(page) == page.next

LoopEnds(page) == ~Truthy(page.next)

\* an ok answer: its tickets are transformed and appended, and the loop
\* goes on with the cursor of the answer or ends
ReceivePage ==
    /\ pc = "await"
    /\ inflight.kind = "page"
    /\ pages' = Append(pages, inflight)
    /\ allTickets' = allTickets \o TransformedTickets(inflight)
    /\ IF LoopEnds(inflight)
       THEN pc' = "fetched" /\ after' = after
       ELSE pc' = "request" /\ after' = NextAfter(inflight)
    /\ UNCHANGED <<apiKey, now, requests, inflight, stats, charts, response>>
    /\ UNCHANGED clientVars

\* GET after the fetch: both computations return
RespondSuccess ==
    /\ pc = "fetched"
    /\ generateCharts(allTickets, now).state = "returned"
    /\ stats' = Returned(generateDashboardStats(allTickets, now))
    /\ charts' = generateCharts(allTickets, now)
    /\ response' = SuccessResponse(stats'.value, charts'.value)
    /\ pc' = "responded"
    /\ UNCHANGED <<apiKey, now, after, allTickets, requests, inflight, pages>>
    /\ UNCHANGED clientVars

\* GET after the fetch: generateCharts throws, GET's catch answers
RespondFailure ==
    /\ pc = "fetched"
    /\ generateCharts(allTickets, now).state = "thrown"
    /\ stats' = Returned(generateDashboardStats(allTickets, now))
    /\ charts' = generateCharts(allTickets, now)
    /\ response' = ErrorResponse(charts'.message)
    /\ pc' = "responded"
    /\ UNCHANGED <<apiKey, now, after, allTickets, requests, inflight, pages>>
    /\ UNCHANGED clientVars

Next ==
    \/ KeyMissing
    \/ BeginFetch
    \/ SendRequest
    \/ ApiAnswer
    \/ FetchRejects
    \/ ReceiveNotOk
    \/ ReceivePage
    \/ RespondSuccess
    \/ RespondFailure

Spec == Init /\ [][Next]_vars

\* the ticket collections the two computations are run on, each with the
\* clock readings it is run at
AggregateInputs ==
    {[tickets |-> StatusTickets, clock |-> NowValues],
     [tickets |-> ServiceTickets, clock |-> NowValues],
     [tickets |-> CrisisTickets, clock |-> NowValues],
     [tickets |-> AgeTickets, clock |-> NowValues],
     [tickets |-> WeekTickets, clock |-> WeekNowValues]}

\* The two computations on every small ticket collection: the first request
\* is about to be answered by one last page that holds the collection
InitAggregate ==
    /\ InitDashboard
    /\ apiKey = "key"
    /\ pc = "await"
    /\ after = Undefined
    /\ allTickets = <<>>
    /\ requests = <<Undefined>>
    /\ \E in \in AggregateInputs :
         /\ now \in in.clock
         /\ \E results \in SeqUpTo(in.tickets, MaxTickets) :
              inflight = OkPage(TRUE, results, Undefined)
    /\ pages = <<>>
    /\ stats = NotComputed
    /\ charts = NotComputed
    /\ response = NoResponse

NextAggregate == ReceivePage \/ RespondSuccess \/ RespondFailure

SpecAggregate == InitAggregate /\ [][NextAggregate]_vars

----------------------------------------------------------------------------
(* The Dashboard page: what GET answers to it *)

\* the status of the NextResponse: 200 unless the catch of GET sets 500
ResponseStatus(body) == IF body.success THEN 200 ELSE 500

\* response.ok
ResponseOk(status) == status \in 200..299

\* the tickets behind the answers the page is run on: an open one, a closed
\* one, and one whose createdate makes generateCharts throw
PayloadTickets ==
    {RawTicket("6", "1", "d1", Undefined, Undefined, Undefined),
     RawTicket("7", "4", "d1", Undefined, Undefined, Undefined),
     RawTicket("8", "1", "not a date", Undefined, "25", Undefined)}

\* the body GET answers with when the fetch returns the tickets
ResponseFor(results) ==
    LET tickets == TransformTickets(results)
        c == generateCharts(tickets, Now0)
    IN  IF c.state = "returned"
        THEN SuccessResponse(generateDashboardStats(tickets, Now0), c.value)
        ELSE ErrorResponse(c.message)

\* the bodies GET answers with: for a fetch that fails, and for a fetch
\* that returns at most MaxTickets tickets
DashboardResponses ==
    {ErrorResponse(<<"HUBSPOT_API_KEY environment variable is not set">>)}
        \cup {ErrorResponse(answer.message) : answer \in {a \in ApiAnswers : ~a.ok}}
        \cup {ResponseFor(results) : results \in SeqUpTo(PayloadTickets, MaxTickets)}

\* what `await fetch('/api/dashboard-data')` may give: a rejection (the server
\* is not reached) or an answer of GET
DashboardAnswers ==
    {[kind |-> "rejected"]}
        \cup {[kind |-> "http", status |-> ResponseStatus(body), body |-> body] :
                 body \in DashboardResponses}

----------------------------------------------------------------------------
(* The Dashboard page: loadDashboard *)

\* the truthiness of a message
MessageTruthy(m) == \E i \in DOMAIN m : m[i] # ""

ConnectErrorNull == Null

\* loadDashboard: the message set by the catch
ConnectError == <<"Cannot connect to server. Please check if the server is running.">>

\* dashboardData.error || 'Unknown error'
ErrorOfBody(body) ==
    IF "error" \in DOMAIN body /\ MessageTruthy(body.error) THEN body.error
    ELSE <<"Unknown error">>

\* the view the component renders
View ==
    IF isLoading THEN "loading"
    ELSE IF error # Null /\ MessageTruthy(error) THEN "error"
    ELSE "dashboard"

\* the number of calls of loadDashboard that have finished
FinishedLoads == Cardinality({k \in 1..Len(loads) : loads[k].pc = "done"})

\* a call of loadDashboard runs up to `await fetch(...)`
LoadStarts ==
    /\ Len(loads) < MaxLoads
    /\ isLoading' = TRUE
    /\ error' = Null
    /\ loads' = Append(loads, [pc |-> "await", answer |-> NoAnswer, rank |-> 0])
    /\ UNCHANGED data

\* useEffect(() => { loadDashboard(); }, []): the call at mount
Mount ==
    /\ loads = <<>>
    /\ LoadStarts
    /\ UNCHANGED serverVars

\* in development React (Strict Mode) runs the mount effect a second time,
\* before anything is answered
EffectRerun ==
    /\ Len(loads) = 1
    /\ loads[1].pc = "await"
    /\ LoadStarts
    /\ UNCHANGED serverVars

\* the button of the error view
TryAgain ==
    /\ View = "error"
    /\ LoadStarts
    /\ UNCHANGED serverVars

\* call k finishes with the answer: rank is its place in the order in which
\* the calls finish
Finish(k, answer) ==
    /\ isLoading' = FALSE
    /\ loads' = [loads EXCEPT
                   ![k] = [pc |-> "done", answer |-> answer, rank |-> FinishedLoads + 1]]

\* fetch rejects or the answer is not ok (the throw of line 47): the catch
LoadFails(k) ==
    /\ k \in 1..Len(loads)
    /\ loads[k].pc = "await"
    /\ \E answer \in DashboardAnswers :
         /\ IF answer.kind = "rejected" THEN TRUE ELSE ~ResponseOk(answer.status)
         /\ Finish(k, answer)
    /\ error' = ConnectError
    /\ UNCHANGED data
    /\ UNCHANGED serverVars

\* the answer is ok: its body is stored when it has success, and its error
\* is shown when it has not
LoadReceives(k) ==
    /\ k \in 1..Len(loads)
    /\ loads[k].pc = "await"
    /\ \E answer \in DashboardAnswers :
         /\ answer.kind = "http" /\ ResponseOk(answer.status)
         /\ Finish(k, answer)
         /\ IF answer.body.success
            THEN data' = answer.body /\ error' = error
            ELSE error' = ErrorOfBody(answer.body) /\ data' = data
    /\ UNCHANGED serverVars

\* the page is opened; the state of the server plays no part
InitClient ==
    /\ Init
    /\ apiKey = "key"
    /\ now = Now0

NextClient ==
    \/ Mount
    \/ EffectRerun
    \/ TryAgain
    \/ \E k \in 1..MaxLoads : LoadFails(k)
    \/ \E k \in 1..MaxLoads : LoadReceives(k)

\* every fetch settles
SpecClient ==
    /\ InitClient
    /\ [][NextClient]_vars
    /\ \A k \in 1..MaxLoads : WF_vars(LoadFails(k) \/ LoadReceives(k))

----------------------------------------------------------------------------
(* The Dashboard page: the closed percentages *)

\* Math.round((part / total) * 100) for 0 <= part <= total: 0 / 0 is NaN
MathRoundPercent(part, total) ==
    IF total = 0 THEN [nan |-> TRUE, value |-> 0]
    ELSE [nan |-> FALSE, value |-> (200 * part + total) \div (2 * total)]

\* n || 0
OrZero(n) == IF n = 0 THEN 0 ELSE n

\* createStatusPieChart: closedPercentage, the text of the centre annotation
closedPercentage(d) ==
    LET openTickets == OrZero(d.stats.open_tickets)
        closedTickets == OrZero(d.stats.closed_tickets)
        total == openTickets + closedTickets
    IN  IF total > 0 THEN MathRoundPercent(closedTickets, total)
        ELSE [nan |-> FALSE, value |-> 0]

\* the percentage of the legend entry `Closed (...%)`
LegendClosedPercentage(d) ==
    IF d # NoData
    THEN MathRoundPercent(d.stats.closed_tickets,
                          d.stats.open_tickets + d.stats.closed_tickets)
    ELSE [nan |-> FALSE, value |-> 0]

----------------------------------------------------------------------------
(* Properties of GET and of the fetch *)

LastPage == pages[Len(pages)]

\* fetchHubSpotTickets threw: no API key, or the last answer was a failure
FetchThrew == ~Truthy(apiKey) \/ (pages # <<>> /\ ~LastPage.ok)

\* the message of the Error fetchHubSpotTickets threw
FetchErrorMessage ==
    IF ~Truthy(apiKey) THEN <<"HUBSPOT_API_KEY environment variable is not set">>
    ELSE LastPage.message

\* fetchHubSpotTickets returned its tickets
FetchReturned == pages # <<>> /\ LastPage.ok /\ ~Truthy(LastPage.next)

Responded == pc = "responded"

\* C1: when fetchHubSpotTickets fails (no API key, a transport error, a non-ok
\* status on the first or on a later page), the response of GET is exactly
\* success = false with the message of the thrown error: it has no stats and
\* no charts, and no ticket of an earlier page is in it.
C1_FetchFailureResponse ==
    (Responded /\ FetchThrew) =>
        /\ DOMAIN response = {"success", "error"}
        /\ response.success = FALSE
        /\ response.error = FetchErrorMessage
        /\ stats = NotComputed
        /\ charts = NotComputed

\* a later page fails after tickets of an earlier page were accumulated
C1_Witness ==
    /\ Responded
    /\ Len(pages) = 2
    /\ ~pages[2].ok
    /\ pages[2].message = <<"HubSpot API error: ", "500", " ", "Internal Server Error">>
    /\ Len(allTickets) > 0
    /\ response = [success |-> FALSE, error |-> pages[2].message]

\* C2: whatever the fetched tickets are (a created_at that is no date, a
\* crisis_wish that is no number, a malformed birthday), GET answers
\* success = true with the five statistics and the four charts.
C2_ParsingFailureNeverAborts ==
    (Responded /\ FetchReturned) =>
        /\ DOMAIN response = {"success", "stats", "charts"}
        /\ response.success = TRUE
        /\ DOMAIN response.stats =
               {"open_tickets", "new_tickets_this_week", "osw_count",
                "staffmark_count", "closed_tickets"}
        /\ DOMAIN response.charts =
               {"resource_support", "service_provided", "crisis_wish_tracking",
                "age_demographics"}


----------------------------------------------------------------------------
(* Properties of the crisis-wish chart *)

ChartsReturned == Responded /\ charts.state = "returned"

CrisisChartOut == charts.value.crisis_wish_tracking

NonDecreasing(s) == \A i \in 2..Len(s) : s[i] >= s[i - 1]

\* the indices of the tickets with a crisis_wish that parses as a number and a
\* present created_at
CrisisIndices ==
    {i \in 1..Len(allTickets) :
        /\ Truthy(allTickets[i].properties.crisis_wish)
        /\ ~parseFloat(allTickets[i].properties.crisis_wish).nan
        /\ Truthy(allTickets[i].created_at)}

CrisisAmount(i) == parseFloat(allTickets[i].properties.crisis_wish).value

CrisisTime(i) == NewDate(allTickets[i].created_at).time

\* C3 as stated: the running totals of the crisis-wish chart never decrease,
\* whatever numbers the crisis_wish texts parse to.
C3_TotalsNonDecreasing ==
    ChartsReturned => NonDecreasing(CrisisChartOut.totals)

\* C3 (amended): the running totals never decrease when no included amount is
\* negative; in general the total of a record is below the total of the record
\* before it exactly when the amount of that record is negative.
C3_TotalsNonDecreasingForNonNegative ==
    ChartsReturned =>
        LET totals == CrisisChartOut.totals
            sorted == sortedCrisisData(allTickets)
        IN  /\ Len(sorted) = Len(totals)
            /\ (\A i \in CrisisIndices : CrisisAmount(i) >= 0) => NonDecreasing(totals)
            /\ \A k \in 2..Len(totals) :
                   (totals[k] < totals[k - 1]) <=> (sorted[k].amount < 0)

\* three records with positive amounts, and totals that grow
C3_Witness ==
    /\ ChartsReturned
    /\ Cardinality(CrisisIndices) = 3
    /\ \A i \in CrisisIndices : CrisisAmount(i) > 0
    /\ CrisisChartOut.totals = <<100, 125, 225>>

IsAscendingByTime(p) == \A k \in 2..Len(p) : CrisisTime(p[k - 1]) <= CrisisTime(p[k])

\* C8: the crisis-wish chart has one point for every ticket with a crisis_wish
\* that parses as a number and a present created_at, and for no other; the
\* points are in ascending order of the timestamps; point k has the count k,
\* the day of the k-th record and, as its total, the sum of the amounts of the
\* first k records; the three series have the same length.
C8_CrisisRunningTally ==
    ChartsReturned =>
        LET c == CrisisChartOut
            n == Cardinality(CrisisIndices)
        IN  /\ Len(c.x) = n /\ Len(c.counts) = n /\ Len(c.totals) = n
            /\ \A k \in 1..n : c.counts[k] = k
            /\ \E p \in [1..n -> CrisisIndices] :
                 /\ \A j, k \in 1..n : j # k => p[j] # p[k]
                 /\ IsAscendingByTime(p)
                 /\ \A k \in 1..n :
                      /\ c.x[k] = CrisisTime(p[k]) \div QuarterDaysPerDay
                      /\ c.totals[k] = SumSeq([j \in 1..k |-> CrisisAmount(p[j])])

\* three included records that arrive latest first, two of them on one day
C8_Witness ==
    /\ ChartsReturned
    /\ Len(allTickets) = 3
    /\ Cardinality(CrisisIndices) = 3
    /\ allTickets[1].created_at = "d3" /\ allTickets[1].properties.crisis_wish = "12abc"
    /\ allTickets[2].created_at = "d2b" /\ allTickets[2].properties.crisis_wish = "100"
    /\ allTickets[3].created_at = "d2" /\ allTickets[3].properties.crisis_wish = "25"
    /\ CrisisChartOut.totals = <<25, 125, 137>>
    /\ CrisisChartOut.counts = <<1, 2, 3>>


----------------------------------------------------------------------------
(* Properties of the service chart *)

ServiceChartOut == charts.value.service_provided

ServiceOf(i) == allTickets[i].properties.service_provided

\* the tickets whose service_provided is present, not empty and not "null"
ServiceIndices ==
    {i \in 1..Len(allTickets) :
        ServiceOf(i) # Undefined /\ ServiceOf(i) # "" /\ ServiceOf(i) # "null"}

\* the index of the first ticket that carries a service
FirstSeen(service) ==
    CHOOSE i \in ServiceIndices :
        /\ ServiceOf(i) = service
        /\ \A j \in ServiceIndices : ServiceOf(j) = service => i <= j

\* C4: the labels of the service pie are the distinct service_provided values
\* in the order in which each is first seen in the tickets (values that look
\* like non-negative integers included), and values[i] is the number of
\* tickets that carry labels[i].
C4_ServiceFirstSeenOrder ==
    ChartsReturned =>
        LET labels == ServiceChartOut.labels
            values == ServiceChartOut.values
        IN  /\ Len(labels) = Len(values)
            /\ {labels[k] : k \in 1..Len(labels)} = {ServiceOf(i) : i \in ServiceIndices}
            /\ \A j, k \in 1..Len(labels) :
                   j < k => FirstSeen(labels[j]) < FirstSeen(labels[k])
            /\ \A k \in 1..Len(labels) :
                   values[k] = Cardinality({i \in ServiceIndices : ServiceOf(i) = labels[k]})

----------------------------------------------------------------------------
(* Properties of the status classification and of the statistics *)

StatsReturned == Responded /\ stats.state = "returned"

OpenLabels ==
    {"NEW", "BACKLOG", "RESOURCE_SUPPORT", "EMPLOYMENT_SUPPORT", "IN_PROCESS_STAFFMARK",
     "IN_PROCESS_OSW", "WAITING_FOR_RESPONSE"}

ClosedLabels == {"CLOSED", "COMPLETED", "ARCHIVED"}

HasLabelIn(ticket, labels) ==
    /\ ticket.status.type = "string"
    /\ Len(ticket.status.parts) = 1
    /\ ticket.status.parts[1] \in labels

\* the status is UNKNOWN or STAGE_<code>
IsUnknownOrStage(ticket) ==
    /\ ticket.status.type = "string"
    /\ \/ ticket.status.parts = <<"UNKNOWN">>
       \/ (Len(ticket.status.parts) = 2 /\ ticket.status.parts[1] = "STAGE_")

TicketIndices == 1..Len(allTickets)

\* C5: open_tickets + closed_tickets is at most the number of tickets, and is
\* that number only when no ticket has the status UNKNOWN or STAGE_<code>; a
\* ticket counts as open exactly when its label is one of the seven open
\* labels and as closed exactly when it is one of the three closed labels, so
\* no ticket is counted in both.
C5_OpenPlusClosedAtMostTotal ==
    StatsReturned =>
        LET open == stats.value.open_tickets
            closed == stats.value.closed_tickets
        IN  /\ open + closed <= Len(allTickets)
            /\ open + closed = Len(allTickets) =>
                   \A i \in TicketIndices : ~IsUnknownOrStage(allTickets[i])
            /\ open = Cardinality({i \in TicketIndices : HasLabelIn(allTickets[i], OpenLabels)})
            /\ closed =
                   Cardinality({i \in TicketIndices : HasLabelIn(allTickets[i], ClosedLabels)})
            /\ OpenLabels \cap ClosedLabels = {}

\* three tickets: an open one, a closed one and one with an unknown stage code
C5_Witness ==
    /\ StatsReturned
    /\ Len(allTickets) = 3
    /\ stats.value.open_tickets = 1
    /\ stats.value.closed_tickets = 1
    /\ \E i \in TicketIndices : allTickets[i].status.parts = <<"STAGE_", "42">>

\* the label the table gives each of the 10 known stage codes
KnownStageLabel(code) ==
    CASE code = "1" -> "NEW"
      [] code = "2" -> "BACKLOG"
      [] code = "3" -> "RESOURCE_SUPPORT"
      [] code = "4" -> "CLOSED"
      [] code = "257285392" -> "WAITING_FOR_RESPONSE"
      [] code = "257285393" -> "COMPLETED"
      [] code = "1686843097" -> "IN_PROCESS_STAFFMARK"
      [] code = "1687677633" -> "EMPLOYMENT_SUPPORT"
      [] code = "999098012" -> "IN_PROCESS_OSW"
      [] code = "1746656967" -> "ARCHIVED"

KnownStageCodes ==
    {"1", "2", "3", "4", "257285392", "257285393", "1686843097", "1687677633",
     "999098012", "1746656967"}

\* C6: the status of every fetched ticket is a string: the table's label for
\* each of the 10 known stage codes (COMPLETED for "257285393", which counts
\* as closed and not as open), STAGE_c for every other non-empty code c, and
\* UNKNOWN for an absent code.
C6_StatusIsLabelOfStage ==
    \A i \in TicketIndices :
        LET code == allTickets[i].properties.hs_pipeline_stage
            status == allTickets[i].status
        IN  /\ status.type = "string"
            /\ code \in KnownStageCodes => status.parts = <<KnownStageLabel(code)>>
            /\ code = "257285393" =>
                   /\ HasLabelIn(allTickets[i], ClosedLabels)
                   /\ ~HasLabelIn(allTickets[i], OpenLabels)
            /\ (code \notin KnownStageCodes /\ code # Undefined /\ code # "") =>
                   status.parts = <<"STAGE_", code>>
            /\ code = Undefined => status.parts = <<"UNKNOWN">>


----------------------------------------------------------------------------
(* Properties of the pagination *)

\* fetchHubSpotTickets is over: it returned or threw
FetchOver == pc \in {"fetched", "responded"}

\* the `after` parameter of request k: none in the first request, then the
\* cursor of the answer before it
CursorChain ==
    /\ Len(requests) \in {Len(pages), Len(pages) + 1}
    /\ \A k \in 1..Len(requests) :
           requests[k] = IF k = 1 THEN Undefined ELSE pages[k - 1].next
    /\ \A k \in 1..(Len(requests) - 1) : pages[k].ok /\ Truthy(pages[k].next)

\* the tickets of the pages, page after page
TicketsOfPages == Flatten([k \in 1..Len(pages) |-> TransformedTickets(pages[k])])

\* C7 as stated, in what it says of the end of the call: once a request was
\* sent, fetchHubSpotTickets is over only when the API has answered with a page
\* that has no next cursor.
C7_EndsOnlyOnLastPage ==
    (FetchOver /\ requests # <<>>) => (pages # <<>> /\ LastPage.ok /\ ~Truthy(LastPage.next))

\* C7 (amended): the requests are sent one after the other, request k + 1
\* carrying the cursor of page k as `after`; the call goes on as long as the
\* answers are ok pages with a next cursor; it returns exactly when an ok page
\* has no next cursor, and then returns the tickets of all the pages, each once,
\* in page order; an answer that is not ok, or no answer, also ends the call,
\* by a throw.
C7_PaginationFollowsCursor ==
    /\ CursorChain
    /\ (pc \in {"request", "await"}) =>
           \A k \in 1..Len(pages) : pages[k].ok /\ Truthy(pages[k].next)
    /\ (pc = "request") => (Len(requests) = Len(pages) /\ (pages # <<>> => after = LastPage.next))
    /\ (pc = "fetched" \/ (Responded /\ stats # NotComputed)) <=> FetchReturned
    /\ FetchReturned => allTickets = TicketsOfPages
    /\ (FetchOver /\ requests # <<>>) =>
           /\ Len(pages) = Len(requests)
           /\ (~LastPage.ok \/ ~Truthy(LastPage.next))
           /\ ~LastPage.ok => (Responded /\ response = ErrorResponse(LastPage.message))

\* two pages of one ticket each: the second request carries the cursor of the
\* first page, and the call returns both tickets in page order
C7_Witness ==
    /\ pc = "fetched"
    /\ Len(pages) = 2
    /\ requests = <<Undefined, "c2">>
    /\ pages[1].next = "c2"
    /\ Len(allTickets) = 2
    /\ allTickets[1].id = "104"
    /\ allTickets[2].id = "101"

----------------------------------------------------------------------------
(* Properties of the age chart *)

AgeChartOut == charts.value.age_demographics

\* the bounds of the seven age groups
AgeGroupRange(label) ==
    CASE label = "0-17" -> <<0, 17>>
      [] label = "18-24" -> <<18, 24>>
      [] label = "25-34" -> <<25, 34>>
      [] label = "35-44" -> <<35, 44>>
      [] label = "45-54" -> <<45, 54>>
      [] label = "55-64" -> <<55, 64>>
      [] label = "65+" -> <<65, 120>>

AgeGroupNames == {"0-17", "18-24", "25-34", "35-44", "45-54", "55-64", "65+"}

BirthdayOf(i) == allTickets[i].properties.birthday

\* the tickets whose birthday is a date
BirthdayIndices ==
    {i \in TicketIndices : Truthy(BirthdayOf(i)) /\ NewDate(BirthdayOf(i)).valid}

\* the age in whole years of 365.25 days
WholeYears(i) == (now - NewDate(BirthdayOf(i)).time) \div QuarterDaysPerYear

\* the tickets whose age lies in a group
MembersOf(label) ==
    {i \in BirthdayIndices :
        AgeGroupRange(label)[1] <= WholeYears(i) /\ WholeYears(i) <= AgeGroupRange(label)[2]}

\* the number the age chart shows for a group: the sum of its bars, 0 when the
\* group is not in the chart
ShownCount(label) ==
    IF AgeChartOut.data = <<>> THEN 0
    ELSE LET bar == AgeChartOut.data[1]
             at == {k \in 1..Len(bar.y) : bar.y[k] = label}
         IN  SumSeq([j \in 1..Cardinality(at) |->
                        bar.x[CHOOSE k \in at : Cardinality({m \in at : m < k}) = j - 1]])

\* C9: every group of the age chart counts exactly the tickets whose age in
\* whole years lies in its range: 17 is in "0-17", 18 in "18-24", 120 in "65+";
\* 121, a negative age and a birthday that is no date are in no group; every
\* age from 0 to 120 is in exactly one group.
C9_AgeBuckets ==
    ChartsReturned =>
        /\ \A label \in AgeGroupNames : ShownCount(label) = Cardinality(MembersOf(label))
        /\ \A i \in BirthdayIndices :
               Cardinality({label \in AgeGroupNames : i \in MembersOf(label)}) =
                   (IF 0 <= WholeYears(i) /\ WholeYears(i) <= 120 THEN 1 ELSE 0)
        /\ AgeChartOut.people =
               Cardinality({i \in BirthdayIndices : 0 <= WholeYears(i) /\ WholeYears(i) <= 120})

\* ages 17, 120 and -1 at Now0: one ticket in "0-17", one in "65+", one nowhere
C9_Witness ==
    /\ ChartsReturned
    /\ Len(allTickets) = 3
    /\ \E i, j, k \in TicketIndices :
         /\ BirthdayOf(i) = "bd-17/18" /\ WholeYears(i) = 17
         /\ BirthdayOf(j) = "bd-120/121" /\ WholeYears(j) = 120
         /\ BirthdayOf(k) = "bd-future/0" /\ WholeYears(k) = 0 - 1
    /\ AgeChartOut.data = <<[x |-> <<1, 1>>, y |-> <<"0-17", "65+">>]>>

\* C10: the age chart shows only groups with at least one member, in the
\* order 0-17, 18-24, 25-34, 35-44, 45-54, 55-64, 65+; when no ticket has a
\* valid age it is the empty marker (no data, the title 'No Data Available')
\* and never a bar chart without bars; for no tickets at all, the five
\* statistics are 0 as well.
C10_AgeChartGroups ==
    ChartsReturned =>
        LET valid == {i \in BirthdayIndices : 0 <= WholeYears(i) /\ WholeYears(i) <= 120}
        IN  /\ valid = {} <=> AgeChartOut.data = <<>>
            /\ AgeChartOut.data = <<>> <=>
                   AgeChartOut.title = "Age Demographics - No Data Available"
            /\ AgeChartOut.data # <<>> =>
                   LET bar == AgeChartOut.data[1]
                   IN  /\ Len(AgeChartOut.data) = 1
                       /\ Len(bar.y) = Len(bar.x)
                       /\ Len(bar.y) >= 1
                       /\ \A k \in 1..Len(bar.x) : bar.x[k] >= 1
                       /\ \A k \in 1..Len(bar.y) : bar.y[k] \in AgeGroupNames
                       /\ \A j, k \in 1..Len(bar.y) :
                              j < k => AgeGroupRange(bar.y[j])[2] < AgeGroupRange(bar.y[k])[1]
                       /\ \A label \in AgeGroupNames :
                              MembersOf(label) # {} => \E k \in 1..Len(bar.y) : bar.y[k] = label
            /\ allTickets = <<>> =>
                   /\ AgeChartOut.data = <<>>
                   /\ stats.value = [open_tickets |-> 0, new_tickets_this_week |-> 0,
                                     osw_count |-> 0, staffmark_count |-> 0,
                                     closed_tickets |-> 0]

\* tickets of the ages 35, 121 and 18, in this order: the chart shows 18-24
\* before 35-44 and nothing else
C10_Witness ==
    /\ ChartsReturned
    /\ Len(allTickets) = 3
    /\ BirthdayOf(1) = "bd-34/35" /\ WholeYears(1) = 35
    /\ BirthdayOf(2) = "bd-120/121" /\ WholeYears(2) = 121
    /\ BirthdayOf(3) = "bd-17/18" /\ WholeYears(3) = 18
    /\ AgeChartOut.data = <<[x |-> <<1, 1>>, y |-> <<"18-24", "35-44">>]>>


----------------------------------------------------------------------------
(* Properties of the week count and of the OSW and Staffmark counts *)

\* the most recent Sunday 00:00 at or before the clock reading of the call
\* (time 0 is a Sunday 00:00)
MostRecentSunday == now - (now % (7 * QuarterDaysPerDay))

\* ticket i carries a created_at that parses and lies at or after the boundary
CreatedAtOrAfter(i, boundary) ==
    /\ allTickets[i].created_at \in DOMAIN DateTable
    /\ DateTable[allTickets[i].created_at] >= boundary

\* C11: new_tickets_this_week is exactly the number of tickets whose created_at
\* is at or after the most recent Sunday 00:00 relative to the moment of the
\* call; tickets created before it and tickets whose created_at is missing or
\* does not parse are not counted.
C11_NewTicketsThisWeek ==
    StatsReturned =>
        stats.value.new_tickets_this_week =
            Cardinality({i \in TicketIndices : CreatedAtOrAfter(i, MostRecentSunday)})

\* on a Wednesday: two tickets created before the boundary (the Saturday
\* evening and the Sunday a week earlier) and one created exactly on it
C11_Witness ==
    /\ StatsReturned
    /\ now = Now0
    /\ Len(allTickets) = 3
    /\ {allTickets[i].created_at : i \in TicketIndices} = {"sat-18", "prev-sun-00", "sun-00"}
    /\ stats.value.new_tickets_this_week = 1


\* C12: osw_count and staffmark_count are each at most open_tickets, and so is
\* their sum, the two statuses being distinct members of the open set.
C12_OswAndStaffmarkWithinOpen ==
    StatsReturned =>
        /\ stats.value.osw_count <= stats.value.open_tickets
        /\ stats.value.staffmark_count <= stats.value.open_tickets
        /\ stats.value.osw_count + stats.value.staffmark_count <= stats.value.open_tickets

\* an OSW ticket, a Staffmark ticket and a closed one: the two counts add up
\* to open_tickets
C12_Witness ==
    /\ StatsReturned
    /\ Len(allTickets) = 3
    /\ stats.value.osw_count = 1
    /\ stats.value.staffmark_count = 1
    /\ stats.value.open_tickets = 2
    /\ stats.value.closed_tickets = 1


----------------------------------------------------------------------------
(* Properties of the service chart: what is left out *)

\* the tickets of the collection that carry a service, in their order
TicketsWithService ==
    [k \in 1..Cardinality(ServiceIndices) |->
        allTickets[CHOOSE i \in ServiceIndices :
                       Cardinality({j \in ServiceIndices : j <= i}) = k]]

----------------------------------------------------------------------------
(* Properties of the Dashboard page *)

\* call k of loadDashboard finishes in this step
Finishes(k) == loads[k].pc = "await" /\ loads'[k].pc = "done"

\* the answer carries success = false and an error string
AnsweredFailure(answer) ==
    /\ answer.kind = "http"
    /\ ~answer.body.success
    /\ "error" \in DOMAIN answer.body

\* the answer carries success = true
AnsweredSuccess(answer) == answer.kind = "http" /\ answer.body.success

\* C14: when the API answers a load with success = false and an error string,
\* as GET does on every failure, loadDashboard ends with the error state equal
\* to that string.
C14_ServerErrorShown ==
    [][\A k \in 1..Len(loads) :
           (Finishes(k) /\ AnsweredFailure(loads'[k].answer)) =>
               error' = loads'[k].answer.body.error]_vars


\* call k of loadDashboard starts in this step
Starts(k) == k > Len(loads) /\ k <= Len(loads')

Awaiting(k) == k <= Len(loads) /\ loads[k].pc = "await"

Finished(k) == k <= Len(loads) /\ loads[k].pc = "done"

\* data holds a payload with success = true
HoldsPayload(d) == d # NoData /\ d.success = TRUE

\* C15: every call of loadDashboard sets isLoading = true and error = null at
\* its start and, the fetch settling, eventually finishes, setting isLoading =
\* false; when it finishes, error is not null or data holds a payload with
\* success = true; data is only ever assigned a payload with success = true,
\* and a load that fails leaves the data stored before unchanged.
C15_LoadLifecycle ==
    /\ [][/\ \A k \in 1..MaxLoads : Starts(k) => (isLoading' = TRUE /\ error' = Null)
          /\ \A k \in 1..Len(loads) :
                 Finishes(k) =>
                     /\ isLoading' = FALSE
                     /\ error' # Null \/ HoldsPayload(data')
                     /\ ~AnsweredSuccess(loads'[k].answer) => data' = data
          /\ data' # data => HoldsPayload(data')]_vars
    /\ \A k \in 1..MaxLoads : Awaiting(k) ~> Finished(k)

\* the page holds the payload of a call that finished first, and another call
\* has failed after it: the payload is still there, next to the error
C15_Witness ==
    \E j, k \in 1..Len(loads) :
        /\ Finished(j) /\ Finished(k)
        /\ AnsweredSuccess(loads[j].answer)
        /\ ~AnsweredSuccess(loads[k].answer)
        /\ loads[j].rank < loads[k].rank
        /\ data = loads[j].answer.body
        /\ isLoading = FALSE
        /\ error = ConnectError

\* C16: for every statistics payload, the two counts both 0 included, the
\* Closed percentage of the legend equals the percentage of the centre
\* annotation of the pie, and both are integers in 0..100.
C16_LegendEqualsAnnotation ==
    (View = "dashboard" /\ data # NoData) =>
        /\ LegendClosedPercentage(data) = closedPercentage(data)
        /\ ~closedPercentage(data).nan /\ closedPercentage(data).value \in 0..100
        /\ ~LegendClosedPercentage(data).nan /\ LegendClosedPercentage(data).value \in 0..100

====
